---- MODULE Spec2Model ----
(***************************************************************************)
(* Model of download-book-automated.js: the resumable spread download loop *)
(* of downloadBook, the merge stage mergePDFs, and the pure planning       *)
(* functions (argument parsing, page limit, spread count, file names,      *)
(* title sanitisation).                                                    *)
(*                                                                         *)
(* Strings are sequences of character codes, so that file names compare    *)
(* and titles sanitise as the JavaScript strings do.  JavaScript's NaN and *)
(* null are the two sentinel integers NaN and Null; every arithmetic       *)
(* operator tests for them before it computes.                             *)
(***************************************************************************)
EXTENDS Integers, Sequences, FiniteSets

\* ------------------------------------------------------------------ bounds
\* Largest page count the viewer reports or the operator types.
MaxPages == 5
\* Number of invocations of the script on the same book.
MaxRuns == 2

\* --------------------------------------------------------------- constants
PAGES_PER_SPREAD == 2
\* the width given to padStart
PadWidth == 3
\* parseInt's "not a number"
NaN == -99
\* JavaScript null (pageLimit = null, totalPages = null)
Null == -98

\* ----------------------------------------------------------- pure helpers
\* Math.min(a, b)
MathMin(a, b) == IF a = NaN \/ b = NaN THEN NaN ELSE IF a < b THEN a ELSE b

\* Math.ceil(n / d) for d > 0
MathCeilDiv(n, d) == IF n = NaN THEN NaN ELSE -((-n) \div d)

\* JavaScript truthiness of a number-or-null
Truthy(x) == x # Null /\ x # NaN /\ x # 0

\* i < totalSpreads, false when totalSpreads is NaN
LoopCond(i, n) == n # NaN /\ i < n

\* if (pageLimit) totalPages = Math.min(totalPages, pageLimit)
ApplyLimit(tp, limit) == IF Truthy(limit) THEN MathMin(tp, limit) ELSE tp

\* Math.ceil(totalPages / PAGES_PER_SPREAD)
TotalSpreads(tp) == MathCeilDiv(tp, PAGES_PER_SPREAD)

\* const pageNum = i * PAGES_PER_SPREAD
PageNum(i) == i * PAGES_PER_SPREAD

\* String(i) for i >= 0, as character codes ('0' is 48)
RECURSIVE StringOf(_)
StringOf(n) == IF n < 10 THEN <<48 + n>> ELSE Append(StringOf(n \div 10), 48 + (n % 10))

\* s.padStart(width, fill) for a one-character fill
RECURSIVE PadStart(_, _, _)
PadStart(s, width, fill) ==
  IF Len(s) >= width THEN s ELSE PadStart(<<fill>> \o s, width, fill)

\* (faulty variant of SpreadIndex: the index is not padded)
SpreadIndexUnpadded(i) == StringOf(i)

\* String(i).padStart(3, '0')
SpreadIndex(i) == PadStart(StringOf(i), PadWidth, 48)

\* `spread-${spreadIndex}.pdf`
SpreadFileName(i) ==
  <<115, 112, 114, 101, 97, 100, 45>> \o SpreadIndex(i) \o <<46, 112, 100, 102>>

\* ------------------------------------------------------------ command line
IsDigit(c) == c >= 48 /\ c <= 57

\* arg.includes('/')
IncludesSlash(s) == \E p \in DOMAIN s : s[p] = 47

\* the value of the decimal digits of s from position p on, up to the first
\* character that is no digit
RECURSIVE DigitsFrom(_, _, _)
DigitsFrom(s, p, acc) ==
  IF p <= Len(s) /\ IsDigit(s[p]) THEN DigitsFrom(s, p + 1, 10 * acc + (s[p] - 48)) ELSE acc

\* parseInt(s, 10): an optional sign, then digits; NaN without a digit
ParseInt(s) ==
  LET neg == Len(s) >= 1 /\ s[1] = 45
      first == IF Len(s) >= 1 /\ s[1] \in {43, 45} THEN 2 ELSE 1
  IN  IF first <= Len(s) /\ IsDigit(s[first])
        THEN (IF neg THEN -1 ELSE 1) * DigitsFrom(s, first, 0)
        ELSE NaN

\* the elements of a sequence that satisfy Test, in order
RECURSIVE FilterSlash(_)
FilterSlash(args) ==
  IF args = <<>> THEN <<>>
  ELSE IF IncludesSlash(Head(args)) THEN <<Head(args)>> \o FilterSlash(Tail(args))
  ELSE FilterSlash(Tail(args))

\* positional.length >= 2 && !isNaN(parseInt(positional[1], 10)) && !positional[1].includes('/')
HasPageLimit(args) ==
  Len(args) >= 2 /\ ParseInt(args[2]) # NaN /\ ~IncludesSlash(args[2])

\* const BOOK_URLS = hasPageLimit ? [positional[0]] : positional.filter(arg => arg.includes('/'))
BookUrls(args) == IF HasPageLimit(args) THEN <<args[1]>> ELSE FilterSlash(args)

\* const PAGE_LIMIT = hasPageLimit ? parseInt(positional[1], 10) : null
PageLimitOf(args) == IF HasPageLimit(args) THEN ParseInt(args[2]) ELSE Null

\* bookUrl.match(/\/boek\/(\d+)/): "/boek/" and a digit somewhere in the URL
MatchBookId(url) ==
  \E p \in 1 .. (Len(url) - 6) :
    /\ SubSeq(url, p, p + 5) = <<47, 98, 111, 101, 107, 47>>
    /\ IsDigit(url[p + 6])

\* ------------------------------------------------------------ file contents
MaxSpreads == MathCeilDiv(MaxPages, PAGES_PER_SPREAD)
Indexes == 0 .. (MaxSpreads - 1)
SpreadPaths == { SpreadFileName(k) : k \in Indexes }

Absent == [kind |-> "absent", src |-> -1, n |-> 0]
ZeroByte == [kind |-> "zero", src |-> -1, n |-> 0]
Truncated == [kind |-> "trunc", src |-> -1, n |-> 0]
NoBlob == [kind |-> "none", src |-> -1, n |-> 0]
\* the document printed by the click on spread j, n pages long
Pdf(j, n) == [kind |-> "pdf", src |-> j, n |-> n]
\* what a print click can put into the tab it opens
Blobs(j) == { Pdf(j, n) : n \in 1 .. PAGES_PER_SPREAD } \cup {[kind |-> "zero", src |-> j, n |-> 0]}

\* fs.existsSync(path)
ExistsSync(c) == c.kind # "absent"

\* Buffer.from(pdfData) as it lies on disk after a complete writeFileSync
FileOf(blob) == IF blob.kind = "zero" THEN ZeroByte ELSE blob

\* PDFDocument.load(bytes) succeeds
Loads(c) == c.kind = "pdf"

\* mergedPdf.copyPages(pdf, pdf.getPageIndices()) of the file of spread k
CopiedPages(k, c) == [m \in 1 .. c.n |-> [file |-> k, src |-> c.src, no |-> m]]

\* (faulty variant of AddPages: each spread's pages are put in front of the document)
AddPagesInFront(doc, pages) == pages \o doc

\* copiedPages.forEach(page => mergedPdf.addPage(page))
AddPages(doc, pages) == doc \o pages

NoPromise == [st |-> "none", page |-> NoBlob]
Pending == [st |-> "pending", page |-> NoBlob]
Resolved(b) == [st |-> "resolved", page |-> b]

VARIABLES
  positional,           \* the command line without its flags
  fs,                   \* spreads/<bookId>/ : file name -> content
  out,                  \* output/<title>.pdf : <<>> while absent, else <<pages>>
  pc,                   \* position of the process in downloadBook
  runs,                 \* invocations so far
  pageLimit,            \* PAGE_LIMIT of this invocation
  totalPages,
  totalSpreads,
  i,                    \* index of the fetch loop
  missingSpreadIndexes,
  existingSpreadCount,
  contextOpen,          \* the persistent browser context is open
  inflight,             \* print clicks whose tab has not opened yet
  pdfPagePromise,       \* context.waitForEvent('page') of this iteration
  pdfPage,              \* the tab the race resolved with
  pdfData,              \* the bytes fetched from pdfPage
  mergedPdf,
  mi,                   \* index of the merge loop
  log,                  \* messages of mergePDFs: <<[level, path]>>
  \* history of the current run
  startFs,              \* fs when the run started
  navigated,            \* page offsets given to page.goto(bookUrl#pageNum)
  clicked,              \* spreads whose print button was clicked
  written,              \* file names given to writeFileSync
  failed,               \* per spread: the caught error, or "none"
  saved,                \* mergePDFs wrote the output file in this run
  \* the title, for the specification of the title alone
  docTitle,             \* bookInfo.title ("" stands for null as well)
  bookTitle,            \* the token the output file is named with
  titleDone,
  \* the three loops over the spreads, for the specification of the plan alone
  planPages,            \* totalPages after the page limit
  planLoop,             \* "resume", "fetch", "merge" or "end"
  planI,                \* the loop's i
  planVisit,            \* what the last iteration computed
  planHandled,          \* per loop, the indices its iterations had
  \* main and one downloadBook per URL, for the specification of several books
  processArgv,          \* process.argv.slice(2)
  CLEAR_CACHE,
  PARALLEL,
  BOOK_URLS,
  PAGE_LIMIT,
  mainPc,               \* position of main and of the process
  exit,                 \* how the process ended: [code, cause, job]
  successShown,         \* main printed 'All books downloaded successfully!'
  job,                  \* per URL of BOOK_URLS: the state of its downloadBook
  dirs,                 \* the directories and files that exist under __dirname
  made,                 \* the directories mkdirSync created in this invocation
  cleared,              \* the directories rmSync removed in this invocation
  fileWrites            \* the files written in this invocation: {[path, job]}

diskVars == <<fs, out>>
planVars == <<pageLimit, totalPages, totalSpreads, missingSpreadIndexes, existingSpreadCount>>
fetchVars == <<i, inflight, pdfPagePromise, pdfPage, pdfData>>
mergeVars == <<mergedPdf, mi, log, saved>>
histVars == <<startFs, navigated, clicked, written, failed>>
titleVars == <<docTitle, bookTitle, titleDone>>
loopVars == <<planPages, planLoop, planI, planVisit, planHandled>>
bookVars == <<processArgv, CLEAR_CACHE, PARALLEL, BOOK_URLS, PAGE_LIMIT, mainPc, exit, successShown, job, dirs, made, cleared, fileWrites>>
auxVars == <<titleVars, loopVars, bookVars>>
mainVars == <<positional, diskVars, pc, runs, contextOpen, planVars, fetchVars, mergeVars, histVars>>

NoFailure == [k \in Indexes |-> "none"]

Terminal == {"idle", "usage", "returned", "exited", "crashed", "killed", "done"}

\* values of parseInt(bookInfo.totalPages, 10) and parseInt(answer, 10)
PageCounts == {NaN} \cup (0 .. MaxPages)
\* "x/boek/9": a URL of a book, and "x/9": a URL of no book
BookUrl == <<120, 47, 98, 111, 101, 107, 47, 57>>
OtherUrl == <<120, 47, 57>>
\* the command lines that name at most one book: no argument, a URL, a URL
\* and a page limit
CommandLines ==
  {<<>>, <<BookUrl>>, <<OtherUrl>>} \cup { <<BookUrl, StringOf(n)>> : n \in 0 .. MaxPages }

MainInit ==
  /\ positional = <<>>
  /\ fs = [p \in SpreadPaths |-> Absent]
  /\ out = <<>>
  /\ pc = "idle"
  /\ runs = 0
  /\ pageLimit = Null
  /\ totalPages = Null
  /\ totalSpreads = Null
  /\ i = 0
  /\ missingSpreadIndexes = <<>>
  /\ existingSpreadCount = 0
  /\ contextOpen = FALSE
  /\ inflight = {}
  /\ pdfPagePromise = NoPromise
  /\ pdfPage = NoBlob
  /\ pdfData = NoBlob
  /\ mergedPdf = <<>>
  /\ mi = 0
  /\ log = <<>>
  /\ startFs = [p \in SpreadPaths |-> Absent]
  /\ navigated = {}
  /\ clicked = {}
  /\ written = {}
  /\ failed = NoFailure
  /\ saved = FALSE

NoVisit == [loop |-> "none", i |-> -1, pageNum |-> -1, name |-> <<>>]
NothingHandled == [l \in {"resume", "fetch", "merge"} |-> {}]

TitleIdle ==
  /\ docTitle = <<>>
  /\ bookTitle = <<>>
  /\ titleDone = FALSE

LoopsIdle ==
  /\ planPages = Null
  /\ planLoop = "end"
  /\ planI = 0
  /\ planVisit = NoVisit
  /\ planHandled = NothingHandled

NoExit == [code |-> Null, cause |-> "none", job |-> 0]

BooksIdle ==
  /\ processArgv = <<>>
  /\ CLEAR_CACHE = FALSE
  /\ PARALLEL = FALSE
  /\ BOOK_URLS = <<>>
  /\ PAGE_LIMIT = Null
  /\ mainPc = "idle"
  /\ exit = NoExit
  /\ successShown = FALSE
  /\ job = <<>>
  /\ dirs = {}
  /\ made = {}
  /\ cleared = {}
  /\ fileWrites = {}

Init == MainInit /\ TitleIdle /\ LoopsIdle /\ BooksIdle

\* node download-book-automated.js <url> [limit]: a new process, a new
\* downloadBook; the disk is what the earlier runs left.
StartRun ==
  /\ pc \in Terminal
  /\ runs < MaxRuns
  /\ runs' = runs + 1
  /\ \E argv \in CommandLines :
       /\ positional' = argv
       /\ pageLimit' = PageLimitOf(argv)
       /\ pc' = IF Len(BookUrls(argv)) = 0 THEN "usage" ELSE "match"
  /\ totalPages' = Null
  /\ totalSpreads' = Null
  /\ i' = 0
  /\ missingSpreadIndexes' = <<>>
  /\ existingSpreadCount' = 0
  /\ contextOpen' = FALSE
  /\ inflight' = {}
  /\ pdfPagePromise' = NoPromise
  /\ pdfPage' = NoBlob
  /\ pdfData' = NoBlob
  /\ mergedPdf' = <<>>
  /\ mi' = 0
  /\ log' = <<>>
  /\ startFs' = fs
  /\ navigated' = {}
  /\ clicked' = {}
  /\ written' = {}
  /\ failed' = NoFailure
  /\ saved' = FALSE
  /\ UNCHANGED diskVars
  /\ UNCHANGED auxVars

\* bookUrl.match(/\/boek\/(\d+)/), mkdir, launchPersistentContext, goto
Launch ==
  /\ pc = "match"
  /\ LET bookIdMatch == MatchBookId(BookUrls(positional)[1])
     IN  IF bookIdMatch
         THEN pc' = "needsLogin" /\ contextOpen' = TRUE
         ELSE pc' = "returned" /\ UNCHANGED contextOpen
  /\ UNCHANGED <<positional, diskVars, runs, planVars, fetchVars, mergeVars, histVars>>
  /\ UNCHANGED auxVars

\* const needsLogin = !hasPrintButton && (hasLoginForm || hasLoginText)
NeedsLogin ==
  /\ pc = "needsLogin"
  /\ \E hasPrintButton \in BOOLEAN, hasLogin \in BOOLEAN :
       pc' = IF ~hasPrintButton /\ hasLogin THEN "login" ELSE "verify"
  /\ UNCHANGED <<positional, diskVars, runs, contextOpen, planVars, fetchVars, mergeVars, histVars>>
  /\ UNCHANGED auxVars

\* waitForUserLogin: the operator presses ENTER; the book is loaded again
WaitForUserLogin ==
  /\ pc = "login"
  /\ pc' = "verify"
  /\ UNCHANGED <<positional, diskVars, runs, contextOpen, planVars, fetchVars, mergeVars, histVars>>
  /\ UNCHANGED auxVars

\* if (!hasPrintButton) { await context.close(); process.exit(1); }
VerifyPrintButton ==
  /\ pc = "verify"
  /\ \E hasPrintButton \in BOOLEAN :
       IF hasPrintButton
         THEN pc' = "detect" /\ UNCHANGED contextOpen
         ELSE pc' = "exited" /\ contextOpen' = FALSE
  /\ UNCHANGED <<positional, diskVars, runs, planVars, fetchVars, mergeVars, histVars>>
  /\ UNCHANGED auxVars

\* bookInfo.totalPages: a non-empty string is parsed, otherwise the operator is asked
DetectInfo ==
  /\ pc = "detect"
  /\ \/ \E tp \in PageCounts : totalPages' = tp /\ pc' = "plan"
     \/ totalPages' = Null /\ pc' = "ask"
  /\ UNCHANGED <<positional, diskVars, runs, contextOpen, pageLimit, totalSpreads,
                 missingSpreadIndexes, existingSpreadCount, fetchVars, mergeVars, histVars>>
  /\ UNCHANGED auxVars

\* readline.question('Please enter the total number of pages manually: ')
AskPages ==
  /\ pc = "ask"
  /\ \E pages \in PageCounts :
       IF pages = NaN \/ pages <= 0
         THEN pc' = "exited" /\ UNCHANGED totalPages
         ELSE pc' = "plan" /\ totalPages' = pages
  /\ UNCHANGED <<positional, diskVars, runs, contextOpen, pageLimit, totalSpreads,
                 missingSpreadIndexes, existingSpreadCount, fetchVars, mergeVars, histVars>>
  /\ UNCHANGED auxVars

\* for (i < totalSpreads) if (!fs.existsSync(outputPath)) missingSpreadIndexes.push(i)
RECURSIVE MissingFrom(_, _, _)
MissingFrom(k, n, disk) ==
  IF ~LoopCond(k, n) THEN <<>>
  ELSE IF ~ExistsSync(disk[SpreadFileName(k)])
         THEN <<k>> \o MissingFrom(k + 1, n, disk)
         ELSE MissingFrom(k + 1, n, disk)

\* ... else existingSpreadCount++
RECURSIVE ExistingFrom(_, _, _)
ExistingFrom(k, n, disk) ==
  IF ~LoopCond(k, n) THEN 0
  ELSE IF ExistsSync(disk[SpreadFileName(k)])
         THEN 1 + ExistingFrom(k + 1, n, disk)
         ELSE ExistingFrom(k + 1, n, disk)

\* (faulty variant of AllDownloaded: the early exit to the merge is never taken)
AllDownloadedNever(missing) == FALSE

\* if (missingSpreadIndexes.length === 0)
AllDownloaded(missing) == Len(missing) = 0

\* the page limit, the spread count and the resume check (synchronous)
Plan ==
  /\ pc = "plan"
  /\ totalPages' = ApplyLimit(totalPages, pageLimit)
  /\ totalSpreads' = TotalSpreads(totalPages')
  /\ missingSpreadIndexes' = MissingFrom(0, totalSpreads', fs)
  /\ existingSpreadCount' = ExistingFrom(0, totalSpreads', fs)
  /\ pc' = IF AllDownloaded(missingSpreadIndexes') THEN "skipClose" ELSE "loop"
  /\ UNCHANGED <<positional, diskVars, runs, contextOpen, pageLimit, fetchVars, mergeVars, histVars>>
  /\ UNCHANGED auxVars

\* await context.close(); await mergePDFs(); return;  (all spreads exist)
SkipToMerge ==
  /\ pc = "skipClose"
  /\ contextOpen' = FALSE
  /\ pc' = "merge"
  /\ UNCHANGED <<positional, diskVars, runs, planVars, fetchVars, mergeVars, histVars>>
  /\ UNCHANGED auxVars

\* (faulty variant of LoopHead: the loop does not skip a spread whose file exists)
LoopHeadNoSkip ==
  /\ pc = "loop"
  /\ pc' = IF ~LoopCond(i, totalSpreads) THEN "close" ELSE "goto"
  /\ UNCHANGED <<positional, diskVars, runs, contextOpen, planVars, fetchVars, mergeVars, histVars>>
  /\ UNCHANGED auxVars

\* the head of the fetch loop: i < totalSpreads, and the skip of an existing file
LoopHead ==
  /\ pc = "loop"
  /\ IF ~LoopCond(i, totalSpreads)
       THEN pc' = "close" /\ UNCHANGED i
       ELSE IF ExistsSync(fs[SpreadFileName(i)])
              THEN pc' = "loop" /\ i' = i + 1
              ELSE pc' = "goto" /\ UNCHANGED i
  /\ UNCHANGED <<positional, diskVars, runs, contextOpen, planVars, inflight, pdfPagePromise,
                 pdfPage, pdfData, mergeVars, histVars>>
  /\ UNCHANGED auxVars

\* await page.goto(`${bookUrl}#${pageNum}`); waitForTimeout(4000);
\* const pdfPagePromise = context.waitForEvent('page')
Navigate ==
  /\ pc = "goto"
  /\ \/ /\ navigated' = navigated \cup {PageNum(i)}
        /\ pdfPagePromise' = Pending
        /\ pc' = "click"
     \/ /\ pc' = "crashed"          \* page.goto throws: nothing catches it
        /\ UNCHANGED <<navigated, pdfPagePromise>>
  /\ UNCHANGED <<positional, diskVars, runs, contextOpen, planVars, i, inflight, pdfPage, pdfData,
                 mergeVars, startFs, clicked, written, failed>>
  /\ UNCHANGED auxVars

\* try { await page.click('#print-pdf') } catch { continue }
Click ==
  /\ pc = "click"
  /\ clicked' = clicked \cup {i}
  /\ inflight' = inflight \cup {i}
  /\ pc' = "race"
  /\ UNCHANGED <<positional, diskVars, runs, contextOpen, planVars, i, pdfPagePromise, pdfPage, pdfData,
                 mergeVars, startFs, navigated, written, failed>>
  /\ UNCHANGED auxVars

ClickError ==
  /\ pc = "click"
  /\ failed' = [failed EXCEPT ![i] = "click"]
  /\ pdfPagePromise' = NoPromise
  /\ i' = i + 1
  /\ pc' = "loop"
  /\ UNCHANGED <<positional, diskVars, runs, contextOpen, planVars, inflight, pdfPage, pdfData,
                 mergeVars, startFs, navigated, clicked, written>>
  /\ UNCHANGED auxVars

\* the browser opens the tab of an earlier print click: the 'page' event goes to
\* the waiter that is listening at that moment, whichever click the tab is from
PageOpens(j) ==
  /\ pc \notin Terminal
  /\ j \in inflight
  /\ inflight' = inflight \ {j}
  /\ \E b \in Blobs(j) :
       pdfPagePromise' = IF pdfPagePromise = Pending THEN Resolved(b) ELSE pdfPagePromise
  /\ UNCHANGED <<positional, diskVars, pc, runs, contextOpen, planVars, i, pdfPage, pdfData,
                 mergeVars, histVars>>
  /\ UNCHANGED auxVars

\* pdfPage = await Promise.race([pdfPagePromise, 5 s timeout]): the page won
RacePage ==
  /\ pc = "race"
  /\ pdfPagePromise.st = "resolved"
  /\ pdfPage' = pdfPagePromise.page
  /\ pdfPagePromise' = NoPromise
  /\ pc' = "load"
  /\ UNCHANGED <<positional, diskVars, runs, contextOpen, planVars, i, inflight, pdfData,
                 mergeVars, histVars>>
  /\ UNCHANGED auxVars

\* (faulty variant of RaceTimeout: the timeout is not caught and ends downloadBook)
RaceTimeoutUncaught ==
  /\ pc = "race"
  /\ pdfPagePromise = Pending
  /\ failed' = [failed EXCEPT ![i] = "timeout"]
  /\ pc' = "crashed"
  /\ UNCHANGED <<positional, diskVars, runs, contextOpen, planVars, fetchVars, mergeVars,
                 startFs, navigated, clicked, written>>
  /\ UNCHANGED auxVars

\* ... the timeout won: catch { continue }
RaceTimeout ==
  /\ pc = "race"
  /\ pdfPagePromise = Pending
  /\ failed' = [failed EXCEPT ![i] = "timeout"]
  /\ pdfPagePromise' = NoPromise
  /\ i' = i + 1
  /\ pc' = "loop"
  /\ UNCHANGED <<positional, diskVars, runs, contextOpen, planVars, inflight, pdfPage, pdfData,
                 mergeVars, startFs, navigated, clicked, written>>
  /\ UNCHANGED auxVars

\* await pdfPage.waitForLoadState('load')
WaitForLoad ==
  /\ pc = "load"
  /\ pc' \in {"bytes", "crashed"}       \* a throw here is not caught
  /\ UNCHANGED <<positional, diskVars, runs, contextOpen, planVars, fetchVars, mergeVars, histVars>>
  /\ UNCHANGED auxVars

\* const pdfData = await pdfPage.evaluate(fetch blob)
FetchBytes ==
  /\ pc = "bytes"
  /\ pdfData' = pdfPage
  /\ pc' = "write"
  /\ UNCHANGED <<positional, diskVars, runs, contextOpen, planVars, i, inflight, pdfPagePromise, pdfPage,
                 mergeVars, histVars>>
  /\ UNCHANGED auxVars

\* ... catch (error) { console.error('Error saving PDF') }
FetchBytesError ==
  /\ pc = "bytes"
  /\ failed' = [failed EXCEPT ![i] = "bytes"]
  /\ pc' = "closePdf"
  /\ UNCHANGED <<positional, diskVars, runs, contextOpen, planVars, fetchVars, mergeVars,
                 startFs, navigated, clicked, written>>
  /\ UNCHANGED auxVars

\* fs.writeFileSync(outputPath, Buffer.from(pdfData)): the file is opened
\* (created or truncated to zero bytes) ...
WriteOpen ==
  /\ pc = "write"
  /\ fs' = [fs EXCEPT ![SpreadFileName(i)] = ZeroByte]
  /\ written' = written \cup {SpreadFileName(i)}
  /\ pc' = "writing"
  /\ UNCHANGED <<positional, out, runs, contextOpen, planVars, fetchVars, mergeVars,
                 startFs, navigated, clicked, failed>>
  /\ UNCHANGED auxVars

\* ... and all the bytes are written
WriteDone ==
  /\ pc = "writing"
  /\ fs' = [fs EXCEPT ![SpreadFileName(i)] = FileOf(pdfData)]
  /\ pc' = "closePdf"
  /\ UNCHANGED <<positional, out, runs, contextOpen, planVars, fetchVars, mergeVars, histVars>>
  /\ UNCHANGED auxVars

\* (faulty variant of ClosePdfPage: the captured tab is not closed)
ClosePdfPageLeftOpen ==
  /\ pc = "closePdf"
  /\ pc' = "loop"
  /\ i' = i + 1
  /\ UNCHANGED <<positional, diskVars, runs, contextOpen, planVars, inflight, pdfPagePromise,
                 pdfPage, pdfData, mergeVars, histVars>>
  /\ UNCHANGED auxVars

\* await pdfPage.close(); await page.waitForTimeout(500);
ClosePdfPage ==
  /\ pc = "closePdf"
  /\ \/ pc' = "loop" /\ i' = i + 1
     \/ pc' = "crashed" /\ UNCHANGED i   \* pdfPage.close() throws: not caught
  /\ pdfPage' = NoBlob
  /\ pdfData' = NoBlob
  /\ UNCHANGED <<positional, diskVars, runs, contextOpen, planVars, inflight, pdfPagePromise,
                 mergeVars, histVars>>
  /\ UNCHANGED auxVars

\* await context.close(); await mergePDFs();   (after the loop)
CloseContext ==
  /\ pc = "close"
  /\ contextOpen' = FALSE
  /\ inflight' = {}
  /\ pc' = "merge"
  /\ UNCHANGED <<positional, diskVars, runs, planVars, i, pdfPagePromise, pdfPage, pdfData,
                 mergeVars, histVars>>
  /\ UNCHANGED auxVars

\* (faulty variant of MergeSpread: a missing spread is passed over without a warning)
MergeSpreadSilent ==
  /\ pc = "merge"
  /\ LoopCond(mi, TotalSpreads(totalPages))
  /\ LET file == fs[SpreadFileName(mi)]
     IN  IF ExistsSync(file) /\ Loads(file)
           THEN mergedPdf' = AddPages(mergedPdf, CopiedPages(mi, file)) /\ UNCHANGED log
           ELSE IF ExistsSync(file)
                  THEN /\ log' = Append(log, [level |-> "error", path |-> SpreadFileName(mi)])
                       /\ UNCHANGED mergedPdf
                  ELSE UNCHANGED <<log, mergedPdf>>
  /\ mi' = mi + 1
  /\ UNCHANGED <<positional, diskVars, pc, runs, contextOpen, planVars, fetchVars, saved, histVars>>
  /\ UNCHANGED auxVars

\* one iteration of the loop of mergePDFs over i < Math.ceil(totalPages / 2)
MergeSpread ==
  /\ pc = "merge"
  /\ LoopCond(mi, TotalSpreads(totalPages))
  /\ LET spreadPath == SpreadFileName(mi)
         file == fs[spreadPath]
     IN  IF ~ExistsSync(file)
           THEN /\ log' = Append(log, [level |-> "warn", path |-> spreadPath])
                /\ UNCHANGED mergedPdf
           ELSE IF Loads(file)
                  THEN /\ mergedPdf' = AddPages(mergedPdf, CopiedPages(mi, file))
                       /\ UNCHANGED log
                  ELSE /\ log' = Append(log, [level |-> "error", path |-> spreadPath])
                       /\ UNCHANGED mergedPdf
  /\ mi' = mi + 1
  /\ UNCHANGED <<positional, diskVars, pc, runs, contextOpen, planVars, fetchVars, saved, histVars>>
  /\ UNCHANGED auxVars

\* const mergedPdfBytes = await mergedPdf.save(); fs.writeFileSync(outputPath, ...)
MergeSave ==
  /\ pc = "merge"
  /\ ~LoopCond(mi, TotalSpreads(totalPages))
  /\ out' = mergedPdf
  /\ saved' = TRUE
  /\ pc' = "done"
  /\ UNCHANGED <<positional, fs, runs, contextOpen, planVars, fetchVars, mergedPdf, mi, log, histVars>>
  /\ UNCHANGED auxVars

\* the process is terminated from outside (the browser with it); a
\* writeFileSync under way leaves the file with none or some of its bytes
Kill ==
  /\ pc \notin Terminal
  /\ pc' = "killed"
  /\ IF pc = "writing"
       THEN \E c \in {ZeroByte, Truncated} : fs' = [fs EXCEPT ![SpreadFileName(i)] = c]
       ELSE UNCHANGED fs
  \* the memory of the process is gone
  /\ positional' = <<>>
  /\ pageLimit' = Null
  /\ totalPages' = Null
  /\ totalSpreads' = Null
  /\ i' = 0
  /\ missingSpreadIndexes' = <<>>
  /\ existingSpreadCount' = 0
  /\ contextOpen' = FALSE
  /\ inflight' = {}
  /\ pdfPagePromise' = NoPromise
  /\ pdfPage' = NoBlob
  /\ pdfData' = NoBlob
  /\ mergedPdf' = <<>>
  /\ mi' = 0
  /\ log' = <<>>
  /\ UNCHANGED <<out, runs, saved, histVars>>
  /\ UNCHANGED auxVars

Next ==
  \/ StartRun
  \/ Launch
  \/ NeedsLogin
  \/ WaitForUserLogin
  \/ VerifyPrintButton
  \/ DetectInfo
  \/ AskPages
  \/ Plan
  \/ SkipToMerge
  \/ LoopHead
  \/ Navigate
  \/ Click
  \/ ClickError
  \/ \E j \in Indexes : PageOpens(j)
  \/ RacePage
  \/ RaceTimeout
  \/ WaitForLoad
  \/ FetchBytes
  \/ FetchBytesError
  \/ WriteOpen
  \/ WriteDone
  \/ ClosePdfPage
  \/ CloseContext
  \/ MergeSpread
  \/ MergeSave
  \/ Kill

vars == <<mainVars, auxVars>>

Spec == Init /\ [][Next]_vars

\* ---------------------------------------------------------------- the title
\* Longest title drawn, besides the example of the specification.
MaxTitleLen == 3

IsAsciiAlnum(c) == (c >= 48 /\ c <= 57) \/ (c >= 65 /\ c <= 90) \/ (c >= 97 /\ c <= 122)

\* (faulty variant of ReplaceNonAlnum: the character is taken out, not replaced)
RECURSIVE RemoveNonAlnum(_)
RemoveNonAlnum(t) ==
  IF t = <<>> THEN <<>>
  ELSE IF IsAsciiAlnum(Head(t)) THEN <<Head(t)>> \o RemoveNonAlnum(Tail(t))
  ELSE RemoveNonAlnum(Tail(t))

\* title.replace(/[^a-z0-9]/gi, '-')      ('-' is 45)
ReplaceNonAlnum(t) == [p \in 1 .. Len(t) |-> IF IsAsciiAlnum(t[p]) THEN t[p] ELSE 45]

\* one character of toLowerCase(), for Latin-1
LowerChar(c) ==
  IF (c >= 65 /\ c <= 90) \/ (c >= 192 /\ c <= 222 /\ c # 215) THEN c + 32 ELSE c

\* .toLowerCase()
ToLowerCase(t) == [p \in 1 .. Len(t) |-> LowerChar(t[p])]

\* bookIdMatch[1]: the digits that follow the first "/boek/"
RECURSIVE DigitRun(_, _)
DigitRun(url, p) ==
  IF p <= Len(url) /\ IsDigit(url[p]) THEN <<url[p]>> \o DigitRun(url, p + 1) ELSE <<>>

BookIdOf(url) ==
  LET at(p) == /\ SubSeq(url, p, p + 5) = <<47, 98, 111, 101, 107, 47>>
               /\ IsDigit(url[p + 6])
      first == CHOOSE p \in 1 .. (Len(url) - 6) :
                 at(p) /\ \A q \in 1 .. (p - 1) : ~at(q)
  IN  DigitRun(url, first + 6)

\* "Het Grote Verhaal! (deel 2)"
ExampleTitle ==
  <<72, 101, 116, 32, 71, 114, 111, 116, 101, 32, 86, 101, 114, 104, 97, 97, 108, 33, 32,
    40, 100, 101, 101, 108, 32, 50, 41>>

\* 'H', 'e', '2', ' ', '!', '-', 'e' acute, 'E' acute
TitleChars == {72, 101, 50, 32, 33, 45, 233, 201}
Titles == {ExampleTitle} \cup UNION { [1 .. n -> TitleChars] : n \in 0 .. MaxTitleLen }

TitleInit ==
  /\ MainInit
  /\ LoopsIdle
  /\ BooksIdle
  /\ docTitle \in Titles
  /\ bookTitle = <<>>
  /\ titleDone = FALSE

\* if (bookInfo.title) bookTitle = bookInfo.title.replace(...).toLowerCase()
\* else bookTitle = bookId
SetBookTitle ==
  /\ ~titleDone
  /\ bookTitle' = IF Len(docTitle) > 0
                    THEN ToLowerCase(ReplaceNonAlnum(docTitle))
                    ELSE BookIdOf(BookUrl)
  /\ titleDone' = TRUE
  /\ UNCHANGED <<docTitle, mainVars, loopVars, bookVars>>

TitleNext == SetBookTitle

TitleSpec == TitleInit /\ [][TitleNext]_vars

\* ------------------------------------------------- the loops over the spreads
\* Largest page count of the small books drawn.
MaxPlanPages == 8
\* the book whose spreads have the indices 0 .. 999
LargeBook == PAGES_PER_SPREAD * (999 + 1)
PlanPageCounts == (1 .. MaxPlanPages) \cup {LargeBook}

PlanInit ==
  /\ MainInit
  /\ TitleIdle
  /\ BooksIdle
  /\ planPages \in PlanPageCounts
  /\ planLoop = "resume"
  /\ planI = 0
  /\ planVisit = NoVisit
  /\ planHandled = NothingHandled

\* what one iteration of loop l computes and remembers
Visited(l, pageNum) ==
  /\ planVisit' = [loop |-> l, i |-> planI, pageNum |-> pageNum,
                   name |-> SpreadFileName(planI)]
  /\ planHandled' = [planHandled EXCEPT ![l] = @ \cup {planI}]
  /\ planI' = planI + 1

\* the resume check: for (let i = 0; i < totalSpreads; i++) { outputPath ... }
ResumeVisit ==
  /\ planLoop = "resume"
  /\ LoopCond(planI, TotalSpreads(planPages))
  /\ Visited("resume", -1)
  /\ UNCHANGED <<planPages, planLoop, mainVars, titleVars, bookVars>>

\* its end; with nothing missing the fetch loop is not entered
ResumeLeave ==
  /\ planLoop = "resume"
  /\ ~LoopCond(planI, TotalSpreads(planPages))
  /\ planLoop' \in {"fetch", "merge"}
  /\ planI' = 0
  /\ UNCHANGED <<planPages, planVisit, planHandled, mainVars, titleVars, bookVars>>

\* the fetch loop: pageNum = i * PAGES_PER_SPREAD, spreadIndex, outputPath
FetchVisit ==
  /\ planLoop = "fetch"
  /\ LoopCond(planI, TotalSpreads(planPages))
  /\ Visited("fetch", PageNum(planI))
  /\ UNCHANGED <<planPages, planLoop, mainVars, titleVars, bookVars>>

FetchLeave ==
  /\ planLoop = "fetch"
  /\ ~LoopCond(planI, TotalSpreads(planPages))
  /\ planLoop' = "merge"
  /\ planI' = 0
  /\ UNCHANGED <<planPages, planVisit, planHandled, mainVars, titleVars, bookVars>>

\* the loop of mergePDFs over its own Math.ceil(totalPages / PAGES_PER_SPREAD)
MergeVisit ==
  /\ planLoop = "merge"
  /\ LoopCond(planI, TotalSpreads(planPages))
  /\ Visited("merge", -1)
  /\ UNCHANGED <<planPages, planLoop, mainVars, titleVars, bookVars>>

MergeLeave ==
  /\ planLoop = "merge"
  /\ ~LoopCond(planI, TotalSpreads(planPages))
  /\ planLoop' = "end"
  /\ planI' = 0
  /\ UNCHANGED <<planPages, planVisit, planHandled, mainVars, titleVars, bookVars>>

PlanNext ==
  \/ ResumeVisit
  \/ ResumeLeave
  \/ FetchVisit
  \/ FetchLeave
  \/ MergeVisit
  \/ MergeLeave

PlanSpec == PlanInit /\ [][PlanNext]_vars

\* ------------------------------------------------------------ several books
\* Largest page count detected or typed, and largest page limit.
MaxBookPages == 2

\* "--parallel", "--clear-cache"
ParallelFlag == <<45, 45, 112, 97, 114, 97, 108, 108, 101, 108>>
ClearCacheFlag == <<45, 45, 99, 108, 101, 97, 114, 45, 99, 97, 99, 104, 101>>

\* arg.startsWith('--')
StartsWithDashes(arg) == Len(arg) >= 2 /\ arg[1] = 45 /\ arg[2] = 45

\* const flags = args.filter(arg => arg.startsWith('--'))
RECURSIVE FlagsOf(_)
FlagsOf(args) ==
  IF args = <<>> THEN <<>>
  ELSE IF StartsWithDashes(Head(args)) THEN <<Head(args)>> \o FlagsOf(Tail(args))
  ELSE FlagsOf(Tail(args))

\* const positional = args.filter(arg => !arg.startsWith('--'))
RECURSIVE PositionalOf(_)
PositionalOf(args) ==
  IF args = <<>> THEN <<>>
  ELSE IF ~StartsWithDashes(Head(args)) THEN <<Head(args)>> \o PositionalOf(Tail(args))
  ELSE PositionalOf(Tail(args))

\* flags.includes(flag)
Includes(list, x) == \E p \in 1 .. Len(list) : list[p] = x

\* the constants the top of the script computes from the command line
Constants(args) ==
  /\ CLEAR_CACHE = Includes(FlagsOf(args), ClearCacheFlag)
  /\ PARALLEL = Includes(FlagsOf(args), ParallelFlag)
  /\ BOOK_URLS = BookUrls(PositionalOf(args))
  /\ PAGE_LIMIT = PageLimitOf(PositionalOf(args))

\* path.join(__dirname, 'spreads', bookId)           "spreads/<bookId>"
OutputDirOf(bookId) == <<115, 112, 114, 101, 97, 100, 115, 47>> \o bookId

\* const useIsolated = BOOK_URLS.length > 1
UseIsolated == Len(BOOK_URLS) > 1

\* ".browser-data"
SharedProfile == <<46, 98, 114, 111, 119, 115, 101, 114, 45, 100, 97, 116, 97>>

\* useIsolated ? path.join(__dirname, `.browser-data-${bookId}`)
\*             : path.join(__dirname, '.browser-data')
UserDataDirOf(bookId) ==
  IF UseIsolated THEN SharedProfile \o <<45>> \o bookId ELSE SharedProfile

\* path.join(outputDir, `spread-${spreadIndex}.pdf`)
SpreadPathOf(outputDir, k) == outputDir \o <<47>> \o SpreadFileName(k)

\* path.join(__dirname, 'output')
OutputFolder == <<111, 117, 116, 112, 117, 116>>

\* path.join(outputFolder, `${bookTitle || bookId}.pdf`)
OutputPathOf(title, bookId) ==
  OutputFolder \o <<47>> \o (IF Len(title) > 0 THEN title ELSE bookId) \o <<46, 112, 100, 102>>

\* "x/boek/8": a second book
SecondUrl == <<120, 47, 98, 111, 101, 107, 47, 56>>

\* the positional arguments drawn: none, one URL, one URL and a page limit,
\* two URLs (two books, the same book twice, a URL of no book among them)
Positionals ==
  {<<>>, <<BookUrl>>, <<OtherUrl>>, <<BookUrl, SecondUrl>>, <<BookUrl, BookUrl>>,
   <<BookUrl, OtherUrl>>, <<OtherUrl, BookUrl>>}
    \cup { <<BookUrl, StringOf(n)>> : n \in 1 .. MaxBookPages }

FlagLists == {<<>>, <<ParallelFlag>>, <<ClearCacheFlag>>, <<ParallelFlag, ClearCacheFlag>>}

BookCommandLines == { p \o f : p \in Positionals, f \in FlagLists }

\* document.title of a book page: none, "A", "a"
DetectedTitles == {<<>>, <<65>>, <<97>>}

\* what an earlier invocation may have left under __dirname
LeftOver ==
  {OutputDirOf(BookIdOf(BookUrl)), SpreadPathOf(OutputDirOf(BookIdOf(BookUrl)), 0),
   SharedProfile, SharedProfile \o <<45>> \o BookIdOf(BookUrl)}

\* the state of a downloadBook that main has not called yet
NewJob(url) ==
  [url |-> url, pc |-> "waiting", bookId |-> <<>>, outputDir |-> <<>>, userDataDir |-> <<>>,
   context |-> "none", gotos |-> 0, prompts |-> 0, firstCheck |-> "none",
   lastCheck |-> "none", bookTitle |-> <<>>, totalPages |-> Null, i |-> 0, did |-> {}]

BooksInit ==
  /\ MainInit
  /\ TitleIdle
  /\ LoopsIdle
  /\ processArgv \in BookCommandLines
  /\ Constants(processArgv)
  /\ mainPc = "start"
  /\ exit = NoExit
  /\ successShown = FALSE
  /\ job = <<>>
  /\ dirs \in {{}, LeftOver}
  /\ made = {}
  /\ cleared = {}
  /\ fileWrites = {}

Jobs == DOMAIN job

\* PARALLEL && BOOK_URLS.length > 1
InParallel == PARALLEL /\ Len(BOOK_URLS) > 1

\* the process has not ended
Alive == exit.code = Null /\ mainPc \in {"running", "rejected"}

\* Promise.all(BOOK_URLS.map(...)) has called every downloadBook before any of
\* them continues after its first await
AllBegun == \A c \in Jobs : job[c].pc # "waiting"
CanStep(b) == Alive /\ (InParallel => AllBegun)

\* the top of the script and the start of main
Main ==
  /\ mainPc = "start"
  /\ IF Len(BOOK_URLS) = 0
       THEN /\ exit' = [code |-> 1, cause |-> "usage", job |-> 0]
            /\ mainPc' = "exited"
            /\ UNCHANGED job
       ELSE /\ job' = [b \in 1 .. Len(BOOK_URLS) |-> NewJob(BOOK_URLS[b])]
            /\ mainPc' = "running"
            /\ UNCHANGED exit
  /\ UNCHANGED <<processArgv, CLEAR_CACHE, PARALLEL, BOOK_URLS, PAGE_LIMIT, successShown, dirs, made, cleared, fileWrites>>
  /\ UNCHANGED <<mainVars, titleVars, loopVars>>

\* (faulty variant of Begin: the spreads directory is made before the URL is looked at)
BeginMkdirFirst(b) ==
  /\ mainPc = "running"
  /\ job[b].pc = "waiting"
  /\ IF InParallel THEN \A c \in 1 .. (b - 1) : job[c].pc # "waiting"
                   ELSE \A c \in 1 .. (b - 1) : job[c].pc = "returned"
  /\ IF ~MatchBookId(job[b].url)
       THEN /\ job' = [job EXCEPT ![b].pc = "returned"]
            /\ dirs' = dirs \cup {OutputDirOf(<<>>)}
            /\ made' = made \cup ({OutputDirOf(<<>>)} \ dirs)
            /\ UNCHANGED cleared
       ELSE LET bookId == BookIdOf(job[b].url)
                outputDir == OutputDirOf(bookId)
                userDataDir == UserDataDirOf(bookId)
                clear == CLEAR_CACHE /\ userDataDir \in dirs
            IN  /\ job' = [job EXCEPT ![b].pc = "launch", ![b].bookId = bookId,
                                      ![b].outputDir = outputDir,
                                      ![b].userDataDir = userDataDir]
                /\ dirs' = (dirs \cup {outputDir}) \ (IF clear THEN {userDataDir} ELSE {})
                /\ made' = IF outputDir \in dirs THEN made ELSE made \cup {outputDir}
                /\ cleared' = IF clear THEN cleared \cup {userDataDir} ELSE cleared
  /\ UNCHANGED <<processArgv, CLEAR_CACHE, PARALLEL, BOOK_URLS, PAGE_LIMIT, mainPc, exit, successShown, fileWrites>>
  /\ UNCHANGED <<mainVars, titleVars, loopVars>>

\* downloadBook up to its first await: the URL, the spread directory, the
\* profile directory and --clear-cache
Begin(b) ==
  /\ mainPc = "running"
  /\ job[b].pc = "waiting"
  /\ IF InParallel THEN \A c \in 1 .. (b - 1) : job[c].pc # "waiting"
                   ELSE \A c \in 1 .. (b - 1) : job[c].pc = "returned"
  /\ IF ~MatchBookId(job[b].url)
       THEN /\ job' = [job EXCEPT ![b].pc = "returned"]
            /\ UNCHANGED <<dirs, made, cleared>>
       ELSE LET bookId == BookIdOf(job[b].url)
                outputDir == OutputDirOf(bookId)
                userDataDir == UserDataDirOf(bookId)
                clear == CLEAR_CACHE /\ userDataDir \in dirs
            IN  /\ job' = [job EXCEPT ![b].pc = "launch", ![b].bookId = bookId,
                                      ![b].outputDir = outputDir,
                                      ![b].userDataDir = userDataDir]
                /\ dirs' = (dirs \cup {outputDir}) \ (IF clear THEN {userDataDir} ELSE {})
                /\ made' = IF outputDir \in dirs THEN made ELSE made \cup {outputDir}
                /\ cleared' = IF clear THEN cleared \cup {userDataDir} ELSE cleared
  /\ UNCHANGED <<processArgv, CLEAR_CACHE, PARALLEL, BOOK_URLS, PAGE_LIMIT, mainPc, exit, successShown, fileWrites>>
  /\ UNCHANGED <<mainVars, titleVars, loopVars>>

\* an await of downloadBook b rejects and nothing catches it: main rejects
Throws(b) ==
  /\ job' = [job EXCEPT ![b].pc = "threw"]
  /\ mainPc' = IF mainPc = "running" THEN "rejected" ELSE mainPc

\* (faulty variant of NeedsLoginOf: a missing print button alone asks for a login)
NeedsLoginAlways(hasPrintButton, hasLogin) == ~hasPrintButton

\* return !hasPrintButton && (hasLoginForm || hasLoginText)
NeedsLoginOf(hasPrintButton, hasLogin) == ~hasPrintButton /\ hasLogin

\* launchPersistentContext, page.goto(bookUrl), the first look at the page and
\* the login prompt (readline.question of waitForUserLogin)
Open(b) ==
  /\ CanStep(b)
  /\ job[b].pc = "launch"
  /\ \/ /\ Throws(b)
        /\ UNCHANGED dirs
     \/ /\ \E hasPrintButton \in BOOLEAN, hasLogin \in BOOLEAN :
             job' = [job EXCEPT
               ![b].context = "open",
               ![b].gotos = 1,
               ![b].firstCheck = IF hasPrintButton THEN "button"
                                 ELSE IF hasLogin THEN "login" ELSE "neither",
               ![b].prompts = IF NeedsLoginOf(hasPrintButton, hasLogin) THEN @ + 1 ELSE @,
               ![b].pc = IF NeedsLoginOf(hasPrintButton, hasLogin) THEN "login" ELSE "verify"]
        /\ dirs' = dirs \cup {job[b].userDataDir}
        /\ UNCHANGED mainPc
  /\ UNCHANGED <<processArgv, CLEAR_CACHE, PARALLEL, BOOK_URLS, PAGE_LIMIT, exit, successShown, made, cleared, fileWrites>>
  /\ UNCHANGED <<mainVars, titleVars, loopVars>>

\* the lines the operator may type: ENTER alone, or a number and ENTER
TypedLines == {NaN} \cup (0 .. MaxBookPages)

\* readline.question callbacks: every interface that is open on process.stdin
\* is given the line. waitForUserLogin resolves; the page count is parsed and
\* an invalid one ends the process.
Line(pages) ==
  /\ Alive
  /\ \E b \in Jobs : job[b].pc \in {"login", "ask"}
  /\ LET asking == { b \in Jobs : job[b].pc = "ask" }
         invalid == pages = NaN \/ pages <= 0
     IN  IF asking # {} /\ invalid
           THEN /\ \E b \in asking : exit' = [code |-> 1, cause |-> "pages", job |-> b]
                /\ mainPc' = "exited"
                /\ UNCHANGED job
           ELSE /\ job' = [b \in Jobs |->
                             IF job[b].pc = "login" THEN [job[b] EXCEPT !.pc = "reload"]
                             ELSE IF job[b].pc = "ask"
                               THEN [job[b] EXCEPT !.pc = "plan", !.totalPages = pages]
                             ELSE job[b]]
                /\ UNCHANGED <<exit, mainPc>>
  /\ UNCHANGED <<processArgv, CLEAR_CACHE, PARALLEL, BOOK_URLS, PAGE_LIMIT, successShown, dirs, made, cleared, fileWrites>>
  /\ UNCHANGED <<mainVars, titleVars, loopVars>>

\* after the login: await page.goto(bookUrl, ...) again
Reload(b) ==
  /\ CanStep(b)
  /\ job[b].pc = "reload"
  /\ \/ Throws(b)
     \/ /\ job' = [job EXCEPT ![b].gotos = @ + 1, ![b].pc = "verify"]
        /\ UNCHANGED mainPc
  /\ UNCHANGED <<processArgv, CLEAR_CACHE, PARALLEL, BOOK_URLS, PAGE_LIMIT, exit, successShown, dirs, made, cleared, fileWrites>>
  /\ UNCHANGED <<mainVars, titleVars, loopVars>>

\* (faulty variant of Verify: the context is left open when access is denied)
VerifyNoClose(b) ==
  /\ CanStep(b)
  /\ job[b].pc = "verify"
  /\ \E hasPrintButton \in BOOLEAN :
       job' = [job EXCEPT
         ![b].lastCheck = IF hasPrintButton THEN "present" ELSE "absent",
         ![b].pc = IF hasPrintButton THEN "detect" ELSE "denied"]
  /\ UNCHANGED <<processArgv, CLEAR_CACHE, PARALLEL, BOOK_URLS, PAGE_LIMIT, mainPc, exit, successShown,
                 dirs, made, cleared, fileWrites>>
  /\ UNCHANGED <<mainVars, titleVars, loopVars>>

\* const hasPrintButton = ...; if (!hasPrintButton) { await context.close(); ...
Verify(b) ==
  /\ CanStep(b)
  /\ job[b].pc = "verify"
  /\ \E hasPrintButton \in BOOLEAN :
       job' = [job EXCEPT
         ![b].lastCheck = IF hasPrintButton THEN "present" ELSE "absent",
         ![b].context = IF hasPrintButton THEN @ ELSE "closed",
         ![b].pc = IF hasPrintButton THEN "detect" ELSE "denied"]
  /\ UNCHANGED <<processArgv, CLEAR_CACHE, PARALLEL, BOOK_URLS, PAGE_LIMIT, mainPc, exit, successShown, dirs, made, cleared, fileWrites>>
  /\ UNCHANGED <<mainVars, titleVars, loopVars>>

\* ... process.exit(1); }
ExitDenied(b) ==
  /\ CanStep(b)
  /\ job[b].pc = "denied"
  /\ exit' = [code |-> 1, cause |-> "denied", job |-> b]
  /\ mainPc' = "exited"
  /\ UNCHANGED <<processArgv, CLEAR_CACHE, PARALLEL, BOOK_URLS, PAGE_LIMIT, successShown, job, dirs, made, cleared, fileWrites>>
  /\ UNCHANGED <<mainVars, titleVars, loopVars>>

\* bookInfo: the title token, and the page count or the question for it
Detect(b) ==
  /\ CanStep(b)
  /\ job[b].pc = "detect"
  /\ \E title \in DetectedTitles, detected \in {Null} \cup (1 .. MaxBookPages) :
       job' = [job EXCEPT
         ![b].bookTitle = IF Len(title) > 0 THEN ToLowerCase(ReplaceNonAlnum(title))
                          ELSE job[b].bookId,
         ![b].totalPages = detected,
         ![b].pc = IF detected = Null THEN "ask" ELSE "plan"]
  /\ UNCHANGED <<processArgv, CLEAR_CACHE, PARALLEL, BOOK_URLS, PAGE_LIMIT, mainPc, exit, successShown, dirs, made, cleared, fileWrites>>
  /\ UNCHANGED <<mainVars, titleVars, loopVars>>

\* the page limit and the check for spreads that exist
PlanBook(b) ==
  /\ CanStep(b)
  /\ job[b].pc = "plan"
  /\ LET pages == ApplyLimit(job[b].totalPages, PAGE_LIMIT)
         missing == { k \in 0 .. (TotalSpreads(pages) - 1) :
                        SpreadPathOf(job[b].outputDir, k) \notin dirs }
     IN  job' = [job EXCEPT ![b].totalPages = pages, ![b].i = 0,
                            ![b].pc = IF missing = {} THEN "close" ELSE "fetch"]
  /\ UNCHANGED <<processArgv, CLEAR_CACHE, PARALLEL, BOOK_URLS, PAGE_LIMIT, mainPc, exit, successShown, dirs, made, cleared, fileWrites>>
  /\ UNCHANGED <<mainVars, titleVars, loopVars>>

\* one iteration of the fetch loop: skipped, failed and caught, written, or
\* ended by a rejection that nothing catches
FetchSpread(b) ==
  /\ CanStep(b)
  /\ job[b].pc = "fetch"
  /\ LET path == SpreadPathOf(job[b].outputDir, job[b].i)
     IN  IF ~LoopCond(job[b].i, TotalSpreads(job[b].totalPages))
           THEN /\ job' = [job EXCEPT ![b].pc = "close"]
                /\ UNCHANGED <<mainPc, dirs, fileWrites>>
         ELSE IF path \in dirs
           THEN /\ job' = [job EXCEPT ![b].i = @ + 1]
                /\ UNCHANGED <<mainPc, dirs, fileWrites>>
         ELSE \/ /\ job' = [job EXCEPT ![b].pc = "threw", ![b].did = @ \cup {"goto"}]
                 /\ mainPc' = IF mainPc = "running" THEN "rejected" ELSE mainPc
                 /\ UNCHANGED <<dirs, fileWrites>>
              \/ /\ job' = [job EXCEPT ![b].i = @ + 1, ![b].did = @ \cup {"goto", "click"}]
                 /\ UNCHANGED <<mainPc, dirs, fileWrites>>
              \/ /\ job' = [job EXCEPT ![b].i = @ + 1,
                                       ![b].did = @ \cup {"goto", "click", "write"}]
                 /\ dirs' = dirs \cup {path}
                 /\ fileWrites' = fileWrites \cup {[path |-> path, job |-> b]}
                 /\ UNCHANGED mainPc
  /\ UNCHANGED <<processArgv, CLEAR_CACHE, PARALLEL, BOOK_URLS, PAGE_LIMIT, exit, successShown, made, cleared>>
  /\ UNCHANGED <<mainVars, titleVars, loopVars>>

\* await context.close()
CloseBook(b) ==
  /\ CanStep(b)
  /\ job[b].pc = "close"
  /\ job' = [job EXCEPT ![b].context = "closed", ![b].pc = "merge"]
  /\ UNCHANGED <<processArgv, CLEAR_CACHE, PARALLEL, BOOK_URLS, PAGE_LIMIT, mainPc, exit, successShown, dirs, made, cleared, fileWrites>>
  /\ UNCHANGED <<mainVars, titleVars, loopVars>>

\* mergePDFs: the output folder and the output file
MergeBook(b) ==
  /\ CanStep(b)
  /\ job[b].pc = "merge"
  /\ LET outputPath == OutputPathOf(job[b].bookTitle, job[b].bookId)
     IN  /\ dirs' = dirs \cup {OutputFolder, outputPath}
         /\ made' = IF OutputFolder \in dirs THEN made ELSE made \cup {OutputFolder}
         /\ fileWrites' = fileWrites \cup {[path |-> outputPath, job |-> b]}
  /\ job' = [job EXCEPT ![b].pc = "returned"]
  /\ UNCHANGED <<processArgv, CLEAR_CACHE, PARALLEL, BOOK_URLS, PAGE_LIMIT, mainPc, exit, successShown, cleared>>
  /\ UNCHANGED <<mainVars, titleVars, loopVars>>

\* every downloadBook returned: console.log('All books downloaded successfully!')
MainEnd ==
  /\ mainPc = "running"
  /\ \A b \in Jobs : job[b].pc = "returned"
  /\ successShown' = TRUE
  /\ mainPc' = "ended"
  /\ exit' = [code |-> 0, cause |-> "end", job |-> 0]
  /\ UNCHANGED <<processArgv, CLEAR_CACHE, PARALLEL, BOOK_URLS, PAGE_LIMIT, job, dirs, made, cleared, fileWrites>>
  /\ UNCHANGED <<mainVars, titleVars, loopVars>>

BooksNext ==
  \/ Main
  \/ MainEnd
  \/ \E pages \in TypedLines : Line(pages)
  \/ \E b \in Jobs : Begin(b)
  \/ \E b \in Jobs : Open(b)
  \/ \E b \in Jobs : Reload(b)
  \/ \E b \in Jobs : Verify(b)
  \/ \E b \in Jobs : ExitDenied(b)
  \/ \E b \in Jobs : Detect(b)
  \/ \E b \in Jobs : PlanBook(b)
  \/ \E b \in Jobs : FetchSpread(b)
  \/ \E b \in Jobs : CloseBook(b)
  \/ \E b \in Jobs : MergeBook(b)

BooksSpec == BooksInit /\ [][BooksNext]_vars

\* ------------------------------------------------------------------ claims
\* The name the specification gives spread k: "spread-", k in three decimal
\* digits, ".pdf" (written out, not computed with padStart).
NameOf(k) ==
  <<115, 112, 114, 101, 97, 100, 45,
    48 + ((k \div 100) % 10), 48 + ((k \div 10) % 10), 48 + (k % 10),
    46, 112, 100, 102>>

\* spread k is one of the planned spreads 0 .. ceil(totalPages/2)-1
Planned(k) == totalPages # Null /\ totalPages # NaN /\ PAGES_PER_SPREAD * k < totalPages

\* positions of downloadBook before the page count is planned
BeforePlan == {"idle", "usage", "match", "needsLogin", "login", "verify", "detect", "ask", "plan",
               "returned", "exited"}

\* C1: a spread whose file exists when a run starts is not navigated to, not
\* clicked and not written by that run: its file keeps its content.
C1_ExistingSpreadUntouched ==
  \A k \in Indexes :
    startFs[NameOf(k)] # Absent =>
      /\ fs[NameOf(k)] = startFs[NameOf(k)]
      /\ PAGES_PER_SPREAD * k \notin navigated
      /\ k \notin clicked
      /\ NameOf(k) \notin written

C1_Witness ==
  /\ runs = 2
  /\ pc = "done"
  /\ \E k \in Indexes : Planned(k) /\ startFs[NameOf(k)] # Absent
  /\ \E k \in Indexes : NameOf(k) \in written /\ fs[NameOf(k)].kind = "pdf"

\* C2: a run that starts with every planned spread file present does no
\* fetch operation at all, closes the browser context and goes from the
\* resume check straight to mergePDFs.
AllPlannedPresent == \A k \in Indexes : Planned(k) => startFs[NameOf(k)] # Absent

C2_AllPresentSkipsToMerge ==
  (pc \notin BeforePlan \cup {"killed"} /\ AllPlannedPresent) =>
    /\ navigated = {} /\ clicked = {} /\ written = {} /\ failed = NoFailure
    /\ pdfPagePromise = NoPromise /\ pdfPage = NoBlob /\ inflight = {}
    /\ fs = startFs
    /\ pc \in {"skipClose", "merge", "done"}
    /\ pc \in {"merge", "done"} => ~contextOpen

C2_Witness ==
  /\ pc = "done"
  /\ saved
  /\ totalPages >= 3
  /\ AllPlannedPresent
  /\ \E k \in Indexes : Planned(k) /\ fs[NameOf(k)].kind = "pdf"

\* C3: a click error, a capture timeout and a byte-retrieval error of spread
\* k are each caught: the step writes no file, does not end the run, and goes
\* on to spread k+1 (after closing the captured tab, for the byte error); the
\* file of a failed spread is absent for the rest of the run.
C3_Step ==
  \A k \in Indexes :
    /\ (failed'[k] # failed[k] /\ failed'[k] # "none") =>
         /\ k = i
         /\ failed'[k] \in {"click", "timeout", "bytes"}
         /\ fs' = fs
         /\ IF failed'[k] = "bytes"
              THEN pc' = "closePdf" /\ i' = k
              ELSE pc' = "loop" /\ i' = k + 1
    /\ (failed[k] # "none" /\ pc = "closePdf" /\ i = k /\ pc' \notin {"closePdf", "crashed", "killed"}) =>
         pc' = "loop" /\ i' = k + 1
    /\ failed'[k] # "none" => fs'[NameOf(k)] = Absent

C3_PerSpreadErrorsCaught == [][C3_Step]_vars

C3_Witness ==
  /\ pc = "done"
  /\ \E a, b, c \in Indexes :
       failed[a] = "click" /\ failed[b] = "timeout" /\ failed[c] = "bytes"

\* C4: the bytes in the file of spread k come from the tab opened by the
\* print click of spread k itself.
C4_OwnPageCaptured ==
  \A k \in Indexes : fs[NameOf(k)].kind = "pdf" => fs[NameOf(k)].src = k

\* C5: a zero-byte or truncated spread file found at the start of a run is
\* treated as absent by the resume check, so the run fetches the spread again.
RECURSIVE SeqHas(_, _)
SeqHas(s, x) == IF s = <<>> THEN FALSE ELSE Head(s) = x \/ SeqHas(Tail(s), x)

C5_TruncatedTreatedAsAbsent ==
  pc \in {"skipClose", "loop"} =>
    \A k \in Indexes :
      (Planned(k) /\ startFs[NameOf(k)].kind \in {"zero", "trunc"}) =>
        SeqHas(missingSpreadIndexes, k)

\* C6: the merged document is the concatenation, in ascending spread index,
\* of the pages of every planned spread file that exists and loads; with all
\* spreads present its page count is the sum of the spreads' page counts.
PagesOfFile(k) ==
  IF fs[NameOf(k)].kind = "pdf"
    THEN [m \in 1 .. fs[NameOf(k)].n |-> [file |-> k, src |-> fs[NameOf(k)].src, no |-> m]]
    ELSE <<>>

RECURSIVE ConcatFrom(_)
ConcatFrom(k) ==
  IF k \in Indexes /\ Planned(k) THEN PagesOfFile(k) \o ConcatFrom(k + 1) ELSE <<>>

RECURSIVE PageCountFrom(_)
PageCountFrom(k) ==
  IF k \in Indexes /\ Planned(k) THEN fs[NameOf(k)].n + PageCountFrom(k + 1) ELSE 0

C6_MergeInIndexOrder ==
  (pc = "done") =>
    /\ out = ConcatFrom(0)
    /\ \A p, q \in DOMAIN out :
         p < q => \/ out[p].file < out[q].file
                  \/ out[p].file = out[q].file /\ out[p].no < out[q].no
    /\ (\A k \in Indexes : Planned(k) => fs[NameOf(k)].kind = "pdf") =>
         Len(out) = PageCountFrom(0)

C6_Witness ==
  /\ pc = "done"
  /\ totalPages = 5
  /\ \A k \in Indexes : fs[NameOf(k)].kind = "pdf"
  /\ fs[NameOf(0)].n # fs[NameOf(1)].n
  /\ Len(out) >= 4

\* C7: whatever spreads are missing or unreadable, mergePDFs runs to its end
\* and writes the output file; a missing spread gives exactly one warning
\* naming it, an unreadable one exactly one error, and the pages of every
\* other spread are in the output.
LogCount(level, k) ==
  Cardinality({x \in DOMAIN log : log[x] = [level |-> level, path |-> NameOf(k)]})

PagesFrom(doc, k) == Cardinality({x \in DOMAIN doc : doc[x].file = k})

C7_Merged ==
  /\ saved
  /\ Len(log) = Cardinality({k \in Indexes : Planned(k) /\ fs[NameOf(k)].kind # "pdf"})
  /\ \A k \in Indexes :
       Planned(k) =>
         CASE fs[NameOf(k)].kind = "absent" ->
                LogCount("warn", k) = 1 /\ LogCount("error", k) = 0 /\ PagesFrom(out, k) = 0
           [] fs[NameOf(k)].kind \in {"zero", "trunc"} ->
                LogCount("warn", k) = 0 /\ LogCount("error", k) = 1 /\ PagesFrom(out, k) = 0
           [] OTHER ->
                /\ LogCount("warn", k) = 0 /\ LogCount("error", k) = 0
                /\ PagesFrom(out, k) = fs[NameOf(k)].n

C7_Step ==
  /\ pc = "merge" => pc' \in {"merge", "done", "killed"}
  /\ pc' = "done" => C7_Merged'

C7_MergeSurvivesBadSpreads == [][C7_Step]_vars

C7_Witness ==
  /\ pc = "done"
  /\ saved
  /\ \E a, b, c \in Indexes :
       /\ Planned(a) /\ Planned(b) /\ Planned(c)
       /\ fs[NameOf(a)].kind = "absent"
       /\ fs[NameOf(b)].kind \in {"zero", "trunc"}
       /\ fs[NameOf(c)].kind = "pdf"

\* C9: when the command line gives a numeric page limit, the page count that
\* is planned, fetched and merged is min(detected page count, limit).
RECURSIVE DecimalValue(_)
DecimalValue(s) ==
  IF s = <<>> THEN 0 ELSE 10 * DecimalValue(SubSeq(s, 1, Len(s) - 1)) + (s[Len(s)] - 48)

NumericLimitGiven ==
  /\ Len(positional) = 2
  /\ Len(positional[2]) >= 1
  /\ \A p \in DOMAIN positional[2] : positional[2][p] >= 48 /\ positional[2][p] <= 57

C9_Step ==
  (pc = "plan" /\ pc' \in {"skipClose", "loop"} /\ NumericLimitGiven /\ totalPages # NaN) =>
    LET limit == DecimalValue(positional[2])
    IN  /\ totalPages' = IF totalPages < limit THEN totalPages ELSE limit
        /\ totalSpreads' = (totalPages' + 1) \div 2

C9_LimitIsMinimum == [][C9_Step]_vars

\* C8: the three loops handle exactly the indices 0 .. ceil(totalPages/2)-1;
\* spread i is navigated to with the page offset 2i, and its file is named
\* spread-<i in three digits>.pdf, so that up to index 999 the names are
\* distinct and sort as the indices do.
RECURSIVE LexLessFrom(_, _, _)
LexLessFrom(a, b, p) ==
  IF p > Len(b) THEN FALSE
  ELSE IF p > Len(a) THEN TRUE
  ELSE IF a[p] # b[p] THEN a[p] < b[p]
  ELSE LexLessFrom(a, b, p + 1)

LexLess(a, b) == LexLessFrom(a, b, 1)

LoopIsOver(l) ==
  CASE l = "resume" -> planLoop \in {"fetch", "merge", "end"}
    [] l = "fetch" -> planLoop \in {"merge", "end"} /\ planHandled["fetch"] # {}
    [] OTHER -> planLoop = "end"

C8_PlanAndNames ==
  /\ planVisit.loop # "none" =>
       LET k == planVisit.i
       IN  /\ k >= 0
           /\ 2 * k < planPages
           /\ planVisit.loop = "fetch" => planVisit.pageNum = 2 * k
           /\ k <= 999 =>
                /\ planVisit.name = NameOf(k)
                /\ \A j \in 0 .. (k - 1) : LexLess(NameOf(j), planVisit.name)
  /\ \A l \in {"resume", "fetch", "merge"} :
       LoopIsOver(l) => planHandled[l] = 0 .. (((planPages + 1) \div 2) - 1)

C8_Witness ==
  /\ planPages = LargeBook
  /\ planVisit.loop = "fetch"
  /\ planVisit.i = 999
  /\ planVisit.pageNum = 1998
  /\ planLoop = "merge"
  /\ planHandled["fetch"] = 0 .. 999

\* C10 (as claimed): the title token is the title with every character that
\* is no letter or digit removed and the rest lower-cased.
RECURSIVE OnlyAlnum(_)
OnlyAlnum(t) ==
  IF t = <<>> THEN <<>>
  ELSE IF (Head(t) >= 48 /\ Head(t) <= 57) \/ (Head(t) >= 65 /\ Head(t) <= 90)
            \/ (Head(t) >= 97 /\ Head(t) <= 122)
         THEN <<IF Head(t) >= 65 /\ Head(t) <= 90 THEN Head(t) + 32 ELSE Head(t)>>
                \o OnlyAlnum(Tail(t))
         ELSE OnlyAlnum(Tail(t))

C10_NonAlnumRemoved ==
  (titleDone /\ docTitle # <<>>) =>
    /\ bookTitle = OnlyAlnum(docTitle)
    /\ docTitle = ExampleTitle =>
         \* "hetgroteverhaaldeel2"
         bookTitle = <<104, 101, 116, 103, 114, 111, 116, 101, 118, 101, 114, 104, 97, 97,
                       108, 100, 101, 101, 108, 50>>

\* C10 (amended): the title token has the title's length; a letter is
\* lower-cased, a digit kept, and every other character replaced by '-'.
C10_NonAlnumReplaced ==
  (titleDone /\ docTitle # <<>>) =>
    /\ Len(bookTitle) = Len(docTitle)
    /\ \A p \in 1 .. Len(docTitle) :
         LET c == docTitle[p]
         IN  bookTitle[p] = IF c >= 65 /\ c <= 90 THEN c + 32
                            ELSE IF (c >= 97 /\ c <= 122) \/ (c >= 48 /\ c <= 57) THEN c
                            ELSE 45
    /\ docTitle = ExampleTitle =>
         \* "het-grote-verhaal---deel-2-"
         bookTitle = <<104, 101, 116, 45, 103, 114, 111, 116, 101, 45, 118, 101, 114, 104,
                       97, 97, 108, 45, 45, 45, 100, 101, 101, 108, 45, 50, 45>>

C10_Witness ==
  /\ titleDone
  /\ docTitle = ExampleTitle
  /\ bookTitle = <<104, 101, 116, 45, 103, 114, 111, 116, 101, 45, 118, 101, 114, 104,
                   97, 97, 108, 45, 45, 45, 100, 101, 101, 108, 45, 50, 45>>

\* files written by downloadBook b in this invocation
WrittenBy(b) == { w \in fileWrites : w.job = b }

\* C11: when the print button is absent at the verification step, the book's
\* pipeline has closed its browser context before the process is ended with
\* status 1, and that pipeline has navigated to no spread, clicked no print
\* button and written no file.
C11_Step ==
  /\ \A b \in DOMAIN job' :
       job'[b].lastCheck = "absent" =>
         /\ job'[b].pc = "denied"
         /\ job'[b].context = "closed"
         /\ job'[b].did = {}
         /\ \A w \in fileWrites' : w.job # b
  /\ (exit.code = Null /\ exit'.cause = "denied") =>
         /\ exit'.code = 1
         /\ job[exit'.job].lastCheck = "absent"
         /\ job[exit'.job].context = "closed"
         /\ job'[exit'.job].did = {}
C11_DeniedClosesThenExits == [][C11_Step]_vars

\* the process was ended for a book whose print button was still absent after
\* the login prompt and the reload
C11_Witness ==
  /\ exit.cause = "denied"
  /\ exit.code = 1
  /\ job[exit.job].prompts = 1
  /\ job[exit.job].gotos = 2

\* the URL of downloadBook b has no /boek/<digits>
Malformed(b) == ~MatchBookId(job[b].url)

\* C12: invalid input ends the process at once with a status that is not 0:
\* no URL, a URL without /boek/<digits>, a typed page count that is not a
\* positive number; main then neither prints the success message nor ends
\* with status 0.
C12_InvalidInputExitsNonZero ==
  /\ (mainPc # "start" /\ Len(BOOK_URLS) = 0) =>
        exit.code = 1 /\ ~successShown
  /\ \A b \in Jobs :
        (Malformed(b) /\ job[b].pc # "waiting") =>
          exit.code # 0 /\ ~successShown
  /\ exit.cause = "pages" => exit.code = 1 /\ ~successShown

\* downloadBook b has chosen its directories and has not ended
Working(b) == job[b].pc \notin {"waiting", "returned", "threw"} /\ job[b].bookId # <<>>

\* the spread files downloadBook b wrote
SpreadsWrittenBy(b) ==
  { w.path : w \in { x \in WrittenBy(b) :
                       \E k \in Indexes : x.path = SpreadPathOf(job[b].outputDir, k) } }

\* C13: with more than one URL under --parallel, two pipelines that run at
\* the same time have different profile directories and different spread
\* directories, and no spread file is written by both; with one URL the
\* profile is .browser-data.
C13_IsolatedDirectories ==
  /\ (PARALLEL /\ Len(BOOK_URLS) > 1) =>
        \A b \in Jobs, c \in Jobs :
          (b # c /\ Working(b) /\ Working(c)) =>
            /\ job[b].userDataDir # job[c].userDataDir
            /\ job[b].outputDir # job[c].outputDir
            /\ SpreadsWrittenBy(b) \cap SpreadsWrittenBy(c) = {}
  /\ Len(BOOK_URLS) = 1 =>
        \A b \in Jobs : Working(b) => job[b].userDataDir = SharedProfile

\* spread k was skipped (its file was there when the run started), has failed
\* with a caught error, or was written
Handled(k) ==
  \/ ExistsSync(startFs[NameOf(k)])
  \/ failed[k] # "none"
  \/ NameOf(k) \in written

\* C14: the print click of spread j comes after every click of this run, all
\* of them for smaller indices, when every spread before j is skipped, failed
\* or written and no captured page is open; the merge starts with the context
\* closed and every planned spread handled, and reads the spreads one by one in
\* ascending order.
C14_Step ==
  /\ (clicked' \ clicked # {}) =>
        \E j \in Indexes :
          /\ clicked' = clicked \cup {j}
          /\ \A k \in clicked : k < j
          /\ \A k \in 0 .. (j - 1) : Handled(k)
          /\ pdfPage = NoBlob /\ pdfData = NoBlob
  /\ (pc # "merge" /\ pc' = "merge") =>
        /\ ~contextOpen'
        /\ mi' = 0 /\ mergedPdf' = <<>>
        /\ \A k \in Indexes : Planned(k) => Handled(k)
  /\ (pc = "merge" /\ pc' = "merge" /\ mi' # mi) =>
        /\ mi' = mi + 1
        /\ Len(mergedPdf') >= Len(mergedPdf)
        /\ SubSeq(mergedPdf', 1, Len(mergedPdf)) = mergedPdf
        /\ \A q \in (Len(mergedPdf) + 1) .. Len(mergedPdf') : mergedPdf'[q].file = mi
        /\ \A q \in (Len(log) + 1) .. Len(log') : log'[q].path = NameOf(mi)
C14_OneSpreadAtATime == [][C14_Step]_vars

\* a run that clicked for two spreads, wrote one, caught an error for another
\* and merged
C14_Witness ==
  /\ pc = "done"
  /\ Cardinality(clicked) >= 2
  /\ written # {}
  /\ \E k \in Indexes : failed[k] # "none"
  /\ Len(mergedPdf) > 0

\* downloadBook b ends at the URL check without having touched the disk or a browser
MalformedAbort(b) ==
  (Malformed(b) /\ job[b].pc = "waiting" /\ job'[b].pc # "waiting") =>
    /\ job'[b].pc = "returned"
    /\ dirs' = dirs /\ made' = made /\ cleared' = cleared
    /\ job'[b].context = "none" /\ job'[b].gotos = 0

\* C15 as claimed: a malformed URL and an invalid typed page count both abort
\* before that book's pipeline has made its spread directory, cleared its
\* session store, or launched or navigated a browser.
C15_OriginalStep ==
  /\ \A b \in DOMAIN job : MalformedAbort(b)
  /\ (exit.code = Null /\ exit'.cause = "pages") =>
        /\ job[exit'.job].context = "none"
        /\ job[exit'.job].gotos = 0
        /\ job[exit'.job].outputDir \notin dirs
C15_AbortBeforeAnyIO == [][C15_OriginalStep]_vars

\* C15 amended: a malformed URL aborts the book's pipeline before any I/O; an
\* invalid typed page count ends the process only after the spread directory
\* exists and the browser was launched, navigated to the book and found to
\* show the print button, and with the context still open.
C15_AmendedStep ==
  /\ \A b \in DOMAIN job : MalformedAbort(b)
  /\ (exit.code = Null /\ exit'.cause = "pages") =>
        /\ exit'.code = 1
        /\ job'[exit'.job].context = "open"
        /\ job'[exit'.job].gotos >= 1
        /\ job'[exit'.job].outputDir \in dirs'
        /\ job'[exit'.job].lastCheck = "present"
C15_OnlyMalformedUrlAbortsBeforeIO == [][C15_AmendedStep]_vars

\* one book was given a malformed URL and returned, another one's typed page
\* count was invalid
C15_Witness ==
  /\ exit.cause = "pages"
  /\ \E b \in Jobs : Malformed(b) /\ job[b].pc = "returned"

\* C16: a book is prompted for a login at most once, and exactly when its
\* first look at the page found no print button and a login indicator; after
\* the prompt the book page is loaded again and looked at again; the fetch
\* loop is entered only when the latest look found the print button.
C16_LoginPromptOnce ==
  \A b \in Jobs :
    /\ job[b].prompts <= 1
    /\ (job[b].prompts = 1) <=> (job[b].firstCheck = "login")
    /\ (job[b].prompts = 1 /\ job[b].lastCheck # "none") => job[b].gotos = 2
    /\ (job[b].prompts = 0) => job[b].gotos <= 1
    /\ (job[b].pc = "fetch" \/ job[b].did # {}) => job[b].lastCheck = "present"

\* a book that was prompted once, loaded again and went into the fetch loop
C16_Witness ==
  \E b \in Jobs :
    /\ job[b].prompts = 1
    /\ job[b].gotos = 2
    /\ job[b].pc = "fetch"
    /\ job[b].did # {}

\* downloadBook c has reached its merge
AtMerge(c) == job[c].pc \in {"merge", "returned"} /\ ~Malformed(c)

\* C17: with several books, a book whose print button is still absent after
\* the login attempt ends only its own pipeline: when the process has ended
\* for that reason, every other book with a well-formed URL has reached its
\* merge (or has failed on its own account).
C17_DenialFatalForThatBookOnly ==
  (exit.cause = "denied" /\ Len(BOOK_URLS) > 1) =>
    \A c \in Jobs \ {exit.job} :
      AtMerge(c) \/ Malformed(c) \/ job[c].pc \in {"threw", "denied"}

\* positions where downloadBook waits for the browser, not for the operator
AtBrowser == {"launch", "reload", "verify", "denied", "detect", "plan", "fetch", "close", "merge"}

\* C18: under --parallel, while a book waits in waitForUserLogin for ENTER,
\* every other book can take its own steps; and a line that answers the login
\* prompt of one book resumes that book only: no other book that waits for
\* the operator is resumed, and the process is not ended, by the same line.
C18_Step ==
  /\ \A b \in Jobs, c \in Jobs :
        (InParallel /\ Alive /\ job[b].pc = "login" /\ c # b /\ job[c].pc \in AtBrowser)
          => CanStep(c)
  /\ \A b \in Jobs :
        (InParallel /\ job[b].pc = "login" /\ job'[b].pc # "login") =>
          /\ exit' = exit
          /\ \A c \in Jobs \ {b} : job[c].pc \in {"login", "ask"} => job'[c] = job[c]
C18_LoginSuspendsOneBookOnly == [][C18_Step]_vars

\* C19: a run of downloadBook that passed the print-button check and has a
\* page count does not end, whatever the browser reports during the fetch
\* loop, without having closed the browser context and written the output
\* file with mergePDFs.
C19_EveryRunReachesMerge ==
  (pc \in {"crashed", "done"} /\ totalPages # Null) => (~contextOpen /\ saved)

\* downloadBook b has merged: its output file is written
Merged(b) == job[b].pc = "returned" /\ ~Malformed(b)

\* C20: two books with different identifiers that were merged in one
\* invocation have different output paths, and neither output file was
\* written by both.
C20_OwnOutputFile ==
  \A b \in Jobs, c \in Jobs :
    (Merged(b) /\ Merged(c) /\ job[b].bookId # job[c].bookId) =>
      /\ OutputPathOf(job[b].bookTitle, job[b].bookId)
           # OutputPathOf(job[c].bookTitle, job[c].bookId)
      /\ \A w \in WrittenBy(b), x \in WrittenBy(c) : w.path # x.path

\* a positive integer: not null, not NaN, above zero
PositiveCount(n) == n # Null /\ n # NaN /\ n > 0

\* C21: the page count downloadBook plans with is a positive integer, both
\* as detected or typed and after the page limit; so the resume check never
\* finds 'all spreads already downloaded' for a spread count that is zero,
\* negative or NaN, and no empty document is merged for such a count.
C21_PageCountPositive ==
  /\ totalPages # Null => PositiveCount(totalPages)
  /\ totalSpreads # Null => PositiveCount(totalSpreads)
  /\ pc \in {"skipClose", "merge", "done"} => PositiveCount(totalSpreads)

====
